---- MODULE Spec2Model ----
(***************************************************************************)
(* Model of gaphor/diagram/textelement.py: EditableTextSupport (the text   *)
(* elements of a diagram item, their grouping and layout, hit-testing and  *)
(* drawing) and TextElement (one editable text).                           *)
(*                                                                         *)
(* Lengths and coordinates are fixed-point numbers with one binary         *)
(* fractional digit (a length of n units is the integer n * Scale), so     *)
(* that the division by 2.0 of _align_text_group is exact; the rounding of *)
(* floating-point arithmetic is not modelled.  Strings are                 *)
(* sequences of tokens: a character, or the conversion specifier "%s".     *)
(* Python's None is the string "None" where the other values are strings,  *)
(* and the empty sequence where the other values are one-element           *)
(* sequences (an optional dict).                                           *)
(***************************************************************************)
EXTENDS Integers, Sequences, FiniteSets, TLC

VARIABLES texts, text_groups, show, op

vars == <<texts, text_groups, show, op>>

\* ------------------------------------------------------------------ bounds
MaxTexts == 3

\* ------------------------------------------------------- numeric constants
Scale == 2

MIN_WIDTH == 15 * Scale
MIN_HEIGHT == 10 * Scale
STACK_GAP == 3 * Scale
FAR_AWAY == 10000 * Scale
OUTLINE_WIDTH == Scale \div 2

None == "None"

\* ------------------------------------------------ host and render backend
\* The owning diagram item's size, read by its text_align.
ItemWidth == 100 * Scale
ItemHeight == 50 * Scale

\* The metrics of the render backend's font.
CharWidth == 6 * Scale
LineHeight == 8 * Scale

Max(a, b) == IF a >= b THEN a ELSE b

RECURSIVE SeqMax(_)
SeqMax(s) == IF Len(s) = 1 THEN s[1] ELSE Max(s[1], SeqMax(Tail(s)))

RECURSIVE SeqSum(_)
SeqSum(s) == IF s = <<>> THEN 0 ELSE s[1] + SeqSum(Tail(s))

RECURSIVE SeqMin(_)
SeqMin(s) == IF Len(s) = 1 THEN s[1]
             ELSE IF s[1] <= SeqMin(Tail(s)) THEN s[1] ELSE SeqMin(Tail(s))

\* The lengths of the lines of a string, split at "\n".
LineLengths(s) ==
    LET starts == {0} \cup {i \in 1..Len(s) : s[i] = "\n"}
        stop(i) == IF \E j \in (i+1)..Len(s) : s[j] = "\n"
                   THEN CHOOSE j \in (i+1)..Len(s) :
                          /\ s[j] = "\n"
                          /\ \A k \in (i+1)..(j-1) : s[k] # "\n"
                   ELSE Len(s) + 1
    IN {stop(i) - i - 1 : i \in starts}

NumLines(s) == 1 + Cardinality({i \in 1..Len(s) : s[i] = "\n"})

\* text_extents(cr, text, multiline=True): <<width, height>> of a text.
text_extents(text) ==
    IF text = <<>> THEN <<0, 0>>
    ELSE LET longest == CHOOSE n \in LineLengths(text) :
                          \A m \in LineLengths(text) : m <= n
         IN <<longest * CharWidth, NumLines(text) * LineHeight>>

\* self.text_align(extents, align, padding, outside) of the diagram item:
\* the top-left corner of a box of size extents placed on the item.
\* padding is <<top, right, bottom, left>>.
text_align(extents, align, padding, outside) ==
    LET w == extents[1]
        h == extents[2]
        x == IF outside
             THEN CASE align[1] = "ALIGN_LEFT" -> 0 - w - padding[4]
                    [] align[1] = "ALIGN_CENTER" -> (ItemWidth - w) \div 2
                    [] align[1] = "ALIGN_RIGHT" -> ItemWidth + padding[2]
             ELSE CASE align[1] = "ALIGN_LEFT" -> padding[4]
                    [] align[1] = "ALIGN_CENTER" ->
                         (ItemWidth - w) \div 2 + padding[4] - padding[2]
                    [] align[1] = "ALIGN_RIGHT" -> ItemWidth - w - padding[2]
        y == IF outside
             THEN CASE align[2] = "ALIGN_TOP" -> 0 - h - padding[1]
                    [] align[2] = "ALIGN_MIDDLE" -> (ItemHeight - h) \div 2
                    [] align[2] = "ALIGN_BOTTOM" -> ItemHeight + padding[3]
             ELSE CASE align[2] = "ALIGN_TOP" -> padding[1]
                    [] align[2] = "ALIGN_MIDDLE" ->
                         (ItemHeight - h) \div 2 + padding[1] - padding[3]
                    [] align[2] = "ALIGN_BOTTOM" -> ItemHeight - h - padding[3]
    IN <<x, y>>

\* The square of distance_rectangle_point(bounds, (x, y)): distances are
\* kept as their squares, which orders them as the distances themselves.
distance_rectangle_point(b, x, y) ==
    LET dx == IF x < b.x0 THEN b.x0 - x
              ELSE IF x > b.x0 + b.width THEN x - b.x0 - b.width ELSE 0
        dy == IF y < b.y0 THEN b.y0 - y
              ELSE IF y > b.y0 + b.height THEN y - b.y0 - b.height ELSE 0
    IN dx * dx + dy * dy

\* ------------------------------------------------------------ TextElement
\* Style(): a dict; update(style) overrides it key by key.
StyleUpdate(base, style) ==
    [k \in DOMAIN base \cup DOMAIN style |->
        IF k \in DOMAIN style THEN style[k] ELSE base[k]]

DefaultStyle ==
    [text_padding |-> <<2 * Scale, 2 * Scale, 2 * Scale, 2 * Scale>>,
     text_align |-> <<"ALIGN_CENTER", "ALIGN_TOP">>,
     text_outside |-> FALSE]

\* TextElement.__init__(attr, style, pattern, when).  style is <<>> (None)
\* or <<dict>>; pattern is <<>> (None or '') or a string; when is None or
\* the name of a predicate of the host.
TextElement(attr, style, pattern, when) ==
    [attr |-> attr,
     _bounds |-> [x0 |-> 0, y0 |-> 0, width |-> 10 * Scale, height |-> 0],
     _style |-> IF style # <<>> /\ DOMAIN style[1] # {}
                THEN StyleUpdate(DefaultStyle, style[1]) ELSE DefaultStyle,
     _text |-> <<>>,
     when |-> when,
     _pattern |-> IF pattern # <<>> THEN pattern ELSE <<"%s">>]

\* txt.display(): the default display, or the predicate given as when.
display(txt) == IF txt.when = None THEN TRUE ELSE show[txt.when]

\* pattern % value, value a tuple of strings: the number of conversion
\* specifiers must be the number of values (TypeError otherwise).
NumSpecifiers(pattern) == Cardinality({i \in 1..Len(pattern) : pattern[i] = "%s"})

RECURSIVE Interpolate(_, _)
Interpolate(pattern, value) ==
    IF pattern = <<>> THEN <<>>
    ELSE IF Head(pattern) = "%s"
         THEN Head(value) \o Interpolate(Tail(pattern), Tail(value))
         ELSE <<Head(pattern)>> \o Interpolate(Tail(pattern), value)

\* ---------------------------------------------------- EditableTextSupport
\* _text_groups is a dict in insertion order: a sequence of [key, list]
\* entries; a list holds references to (indices of) the elements of _texts.
HasKey(groups, key) == \E g \in 1..Len(groups) : groups[g].key = key

KeyIndex(groups, key) == CHOOSE g \in 1..Len(groups) : groups[g].key = key

\* style.get('text-align-group')
GroupName(style) ==
    IF "text_align_group" \in DOMAIN style THEN style.text_align_group ELSE None

\* Variant of Displayable that keeps the hidden texts (read by C4).
Displayable_All(ts, group) == group

\* The displayable texts of a group: [txt for txt in group if txt.display()]
Displayable(ts, group) == SelectSeq(group, LAMBDA i : display(ts[i]))

\* The maximum width and total height of the measured dimensions.
GroupExtents(dimensions) ==
    <<SeqMax([k \in 1..Len(dimensions) |-> dimensions[k][1]]),
      SeqSum([k \in 1..Len(dimensions) |-> dimensions[k][2]])>>

\* map(max, extents, (15, 10))
ClampExtents(extents) == <<Max(extents[1], MIN_WIDTH), Max(extents[2], MIN_HEIGHT)>>

\* The size self.text_align is given for a group: extents, as it was
\* assigned before width and height were clamped.
GroupAnchorSize(extents, width, height) == extents

\* Variant of GroupAnchorElement that takes the group's first member, shown
\* or not (read by C10).
GroupAnchorElement_OfGroup(group, group_texts) == group[1]

\* The element whose style anchors a group: texts[0], of the displayable.
GroupAnchorElement(group, group_texts) == group_texts[1]

\* Variant of StackedBounds that does not centre the text (read by C2).
StackedBounds_NotCentred(x, y, width, dw, dh, dy) ==
    [x0 |-> x, y0 |-> y + dy, width |-> dw, height |-> dh]

\* The bounds of one stacked text.
StackedBounds(x, y, width, dw, dh, dy) ==
    [x0 |-> x + (width - dw) \div 2, y0 |-> y + dy, width |-> dw, height |-> dh]

\* Variant of StackAdvance without the gap of 3 (read by C1).
StackAdvance_NoGap(dh) == dh

\* The increment of dy after a stacked text.
StackAdvance(dh) == dh + STACK_GAP

\* for i, txt in enumerate(texts): ... dy += dh + 3
RECURSIVE StackTexts(_, _, _, _, _, _, _, _)
StackTexts(ts, group_texts, dimensions, x, y, width, i, dy) ==
    IF i > Len(group_texts) THEN ts
    ELSE LET dw == dimensions[i][1]
             dh == dimensions[i][2]
             ts1 == [ts EXCEPT ![group_texts[i]]._bounds =
                        StackedBounds(x, y, width, dw, dh, dy)]
         IN StackTexts(ts1, group_texts, dimensions, x, y, width, i + 1,
                       dy + StackAdvance(dh))

\* A call of self.text_align and what it returned.
AlignCall(gname, elem, extents, style) ==
    [group |-> gname, elem |-> elem, extents |-> extents,
     align |-> style.text_align, padding |-> style.text_padding,
     outside |-> style.text_outside,
     ret |-> text_align(extents, style.text_align, style.text_padding,
                        style.text_outside)]

\* _align_text_group(context, group): the texts after it, and the calls of
\* text_align it made.
_align_text_group(ts, gname, group) ==
    LET group_texts == Displayable(ts, group)
    IN IF Len(group_texts) = 0 THEN [texts |-> ts, calls |-> <<>>]
       ELSE LET dimensions == [k \in 1..Len(group_texts) |->
                                 text_extents(ts[group_texts[k]]._text)]
                extents == GroupExtents(dimensions)
                clamped == ClampExtents(extents)
                first == GroupAnchorElement(group, group_texts)
                call == AlignCall(gname, first,
                                  GroupAnchorSize(extents, clamped[1], clamped[2]),
                                  ts[first]._style)
            IN [texts |-> StackTexts(ts, group_texts, dimensions, call.ret[1],
                                     call.ret[2], clamped[1], 1, 0),
                calls |-> <<call>>]

\* for gname in self._text_groups: if gname is not None: ...
RECURSIVE AlignGroups(_, _, _)
AlignGroups(acc, groups, g) ==
    IF g > Len(groups) THEN acc
    ELSE IF groups[g].key = None THEN AlignGroups(acc, groups, g + 1)
    ELSE LET r == _align_text_group(acc.texts, groups[g].key, groups[g].list)
         IN AlignGroups([texts |-> r.texts, calls |-> acc.calls \o r.calls],
                        groups, g + 1)

\* Variant of UngroupedAnchorSize that passes the measured size (read by C3).
UngroupedAnchorSize_Measured(extents, width, height) == extents

\* The size self.text_align is given for an ungrouped text: extents, as it
\* was assigned again after width and height were clamped.
UngroupedAnchorSize(extents, width, height) == <<width, height>>

\* Variant of Skipped that lays out hidden texts too (read by C7).
Skipped_Never(txt) == FALSE

\* if not txt.display(): continue
Skipped(txt) == ~display(txt)

\* for txt in self._text_groups[None]: ...
RECURSIVE AlignUngrouped(_, _, _)
AlignUngrouped(acc, group, k) ==
    IF k > Len(group) THEN acc
    ELSE LET txt == acc.texts[group[k]]
         IN IF Skipped(txt) THEN AlignUngrouped(acc, group, k + 1)
            ELSE LET extents == text_extents(txt._text)
                     size == ClampExtents(extents)
                     call == AlignCall(None, group[k],
                                       UngroupedAnchorSize(extents, size[1], size[2]),
                                       txt._style)
                     b == [x0 |-> call.ret[1], y0 |-> call.ret[2],
                           width |-> size[1], height |-> size[2]]
                 IN AlignUngrouped(
                        [texts |-> [acc.texts EXCEPT ![group[k]]._bounds = b],
                         calls |-> Append(acc.calls, call)],
                        group, k + 1)

\* Variant of PointDistances that measures hidden texts too (read by C5).
PointDistances_OfAll(ts, x, y) ==
    <<FAR_AWAY * FAR_AWAY>> \o
    [i \in 1..Len(ts) |-> distance_rectangle_point(ts[i]._bounds, x, y)]

\* The distances point(x, y) collects, the sentinel first.
PointDistances(ts, x, y) ==
    LET shown == SelectSeq([i \in 1..Len(ts) |-> i], LAMBDA i : display(ts[i]))
    IN <<FAR_AWAY * FAR_AWAY>> \o
       [k \in 1..Len(shown) |-> distance_rectangle_point(ts[shown[k]]._bounds, x, y)]

\* Variant of DrawText that outlines only texts of an item with a subject
\* (read by C8).
DrawText_OutlineOfSubject(txt, i, context, subject) ==
    IF ~display(txt) \/ ~subject THEN <<>>
    ELSE LET b == txt._bounds
         IN <<[call |-> "text_multiline", elem |-> i, x |-> b.x0,
               y |-> b.y0, text |-> txt._text]>>
            \o
            (IF context.hovered \/ context.focused \/ context.draw_all
             THEN <<[call |-> "set_line_width", elem |-> i, width |-> OUTLINE_WIDTH],
                    [call |-> "rectangle", elem |-> i, x |-> b.x0, y |-> b.y0,
                     width |-> b.width, height |-> b.height],
                    [call |-> "stroke", elem |-> i]>>
             ELSE <<>>)

\* The paint operations draw makes for one text (elem names the text, for
\* the properties below; the calls themselves do not carry it).
DrawText(txt, i, context, subject) ==
    IF ~display(txt) THEN <<>>
    ELSE LET b == txt._bounds
         IN (IF subject
             THEN <<[call |-> "text_multiline", elem |-> i, x |-> b.x0,
                     y |-> b.y0, text |-> txt._text]>>
             ELSE <<>>)
            \o
            (IF context.hovered \/ context.focused \/ context.draw_all
             THEN <<[call |-> "set_line_width", elem |-> i, width |-> OUTLINE_WIDTH],
                    [call |-> "rectangle", elem |-> i, x |-> b.x0, y |-> b.y0,
                     width |-> b.width, height |-> b.height],
                    [call |-> "stroke", elem |-> i]>>
             ELSE <<>>)

RECURSIVE DrawTexts(_, _, _, _)
DrawTexts(ts, i, context, subject) ==
    IF i > Len(ts) THEN <<>>
    ELSE DrawText(ts[i], i, context, subject) \o DrawTexts(ts, i + 1, context, subject)

\* ------------------------------------------------------------------ inputs
Group1 == "stereotype"
Group2 == "name"

\* The add_text calls of the host's setup.
AddTextCalls ==
    { [attr |-> "name", style |-> <<>>, pattern |-> <<>>, when |-> None],
      [attr |-> "guard.value",
       style |-> <<[text_align |-> <<"ALIGN_LEFT", "ALIGN_BOTTOM">>,
                    text_outside |-> TRUE]>>,
       pattern |-> <<"[", "%s", "]">>, when |-> "show_stereotype"],
      [attr |-> "name", style |-> <<[text_align_group |-> Group1]>>,
       pattern |-> <<>>, when |-> None],
      [attr |-> "stereotype",
       style |-> <<[text_align_group |-> Group1,
                    text_align |-> <<"ALIGN_RIGHT", "ALIGN_MIDDLE">>,
                    text_padding |-> <<1 * Scale, 2 * Scale, 3 * Scale, 4 * Scale>>]>>,
       pattern |-> <<"%s", "\n", "{", "x", "}">>, when |-> "show_stereotype"],
      [attr |-> "name",
       style |-> <<[text_align_group |-> Group2,
                    text_align |-> <<"ALIGN_LEFT", "ALIGN_TOP">>]>>,
       pattern |-> <<>>, when |-> "show_stereotype"] }

\* The values the host sets: a tuple of strings per value.
Values == { << <<"a", "b">> >>, << <<"a">>, <<"b">> >> }

Points == { <<60 * Scale, 30 * Scale>>, <<12000 * Scale, 0>> }

Contexts ==
    { [hovered |-> FALSE, focused |-> FALSE, draw_all |-> FALSE],
      [hovered |-> TRUE, focused |-> FALSE, draw_all |-> FALSE],
      [hovered |-> FALSE, focused |-> TRUE, draw_all |-> FALSE],
      [hovered |-> FALSE, focused |-> FALSE, draw_all |-> TRUE] }

\* ------------------------------------------------------------------- state
Init ==
    /\ texts = <<>>
    /\ text_groups = <<[key |-> None, list |-> <<>>]>>
    /\ show = [p \in {"show_stereotype"} |-> TRUE]
    /\ op = [name |-> "__init__"]

\* add_text(attr, style, pattern, when)
add_text(c) ==
    LET txt == TextElement(c.attr, c.style, c.pattern, c.when)
        idx == Len(texts) + 1
    IN /\ Len(texts) < MaxTexts
       /\ texts' = Append(texts, txt)
       /\ show' = show
       /\ IF c.style = <<>>
          THEN \* None has no get: AttributeError, after the append to _texts
               /\ text_groups' = text_groups
               /\ op' = [name |-> "add_text", raised |-> TRUE]
          ELSE LET gname == GroupName(c.style[1])
                   groups1 == IF HasKey(text_groups, gname) THEN text_groups
                              ELSE Append(text_groups, [key |-> gname, list |-> <<>>])
                   g == KeyIndex(groups1, gname)
               IN /\ text_groups' = [groups1 EXCEPT ![g].list = Append(@, idx)]
                  /\ op' = [name |-> "add_text", raised |-> FALSE]

AddText == \E c \in AddTextCalls : add_text(c)

\* txt.text = value
_set_text(i, value) ==
    /\ IF Len(value) = NumSpecifiers(texts[i]._pattern)
       THEN /\ texts' = [texts EXCEPT ![i]._text = Interpolate(texts[i]._pattern, value)]
            /\ op' = [name |-> "_set_text", raised |-> FALSE]
       ELSE /\ texts' = texts
            /\ op' = [name |-> "_set_text", raised |-> TRUE]
    /\ UNCHANGED <<text_groups, show>>

SetText == \E i \in 1..Len(texts), value \in Values : _set_text(i, value)

\* The host's predicate changes its answer.
SetShow ==
    /\ \E p \in DOMAIN show : show' = [show EXCEPT ![p] = ~@]
    /\ op' = [name |-> "when"]
    /\ UNCHANGED <<texts, text_groups>>

\* update(context)
update ==
    LET grouped == AlignGroups([texts |-> texts, calls |-> <<>>], text_groups, 1)
        all == AlignUngrouped(grouped, text_groups[KeyIndex(text_groups, None)].list, 1)
    IN /\ texts' = all.texts
       /\ op' = [name |-> "update", calls |-> all.calls]
       /\ UNCHANGED <<text_groups, show>>

\* point(x, y)
point(x, y) ==
    /\ op' = [name |-> "point", x |-> x, y |-> y,
              ret |-> SeqMin(PointDistances(texts, x, y))]
    /\ UNCHANGED <<texts, text_groups, show>>

Point == \E p \in Points : point(p[1], p[2])

\* draw(context), with the subject of the item
draw(context, subject) ==
    /\ op' = [name |-> "draw", context |-> context, subject |-> subject,
              painted |-> DrawTexts(texts, 1, context, subject)]
    /\ UNCHANGED <<texts, text_groups, show>>

Draw == \E context \in Contexts, subject \in BOOLEAN : draw(context, subject)

Next == AddText \/ SetText \/ SetShow \/ update \/ Point \/ Draw

Spec == Init /\ [][Next]_vars

\* -------------------------------------------------------------- properties
\* What the properties read off a state, stated apart from the operators of
\* the model above.
InitialBounds == [x0 |-> 0, y0 |-> 0, width |-> 10 * Scale, height |-> 0]

IsShown(i) == texts[i].when = None \/ show[texts[i].when]

Measured(i) == text_extents(texts[i]._text)

NamedGroups == {g \in 1..Len(text_groups) : text_groups[g].key # None}

UngroupedMembers ==
    UNION {{text_groups[g].list[k] : k \in 1..Len(text_groups[g].list)} :
             g \in {h \in 1..Len(text_groups) : text_groups[h].key = None}}

ShownOf(g) == SelectSeq(text_groups[g].list, IsShown)

CallsFor(key) == SelectSeq(op.calls, LAMBDA c : c.group = key)

BoundsOf(i) == texts[i]._bounds

\* The widest measured width and the total measured height of the shown
\* members of group g.
ShownWidth(g) ==
    LET vis == ShownOf(g)
    IN CHOOSE w \in {Measured(vis[k])[1] : k \in 1..Len(vis)} :
         \A k \in 1..Len(vis) : Measured(vis[k])[1] <= w

RECURSIVE HeightsBefore(_, _)
HeightsBefore(vis, k) ==
    IF k = 1 THEN 0 ELSE HeightsBefore(vis, k - 1) + Measured(vis[k - 1])[2]

ShownHeight(g) == HeightsBefore(ShownOf(g), Len(ShownOf(g)) + 1)

\* C1: after update, in every named group each shown element is as high as
\* its own measured text, every shown element starts 3 units below the end
\* of the shown element before it, and the first shown element starts at the
\* y the alignment function returned for the group.
C1_StackingOrder ==
    op.name = "update" =>
      \A g \in NamedGroups :
        LET vis == ShownOf(g)
            calls == CallsFor(text_groups[g].key)
        IN /\ \A k \in 1..Len(vis) : BoundsOf(vis[k]).height = Measured(vis[k])[2]
           /\ \A k \in 1..(Len(vis) - 1) :
                BoundsOf(vis[k + 1]).y0 =
                  BoundsOf(vis[k]).y0 + BoundsOf(vis[k]).height + 3 * Scale
           /\ Len(vis) > 0 =>
                /\ Len(calls) = 1
                /\ BoundsOf(vis[1]).y0 = calls[1].ret[2]

\* A group laid out with a hidden member between two shown ones of non-zero
\* height.
C1_Witness ==
    /\ op.name = "update"
    /\ \E g \in NamedGroups :
         LET list == text_groups[g].list
         IN \E p, q, r \in 1..Len(list) :
              /\ p < q /\ q < r
              /\ IsShown(list[p]) /\ ~IsShown(list[q]) /\ IsShown(list[r])
              /\ Measured(list[p])[2] > 0 /\ Measured(list[q])[2] > 0

\* C2: after update, every shown element of a named group is as wide as its
\* own measured text and is centred in the group's box: x0 = boxX +
\* (W - elementWidth)/2, W the larger of 15 and the widest shown element,
\* boxX the x the alignment function returned for the group.
C2_Centering ==
    op.name = "update" =>
      \A g \in NamedGroups :
        LET vis == ShownOf(g)
            calls == CallsFor(text_groups[g].key)
        IN Len(vis) > 0 =>
             LET W == IF ShownWidth(g) > 15 * Scale THEN ShownWidth(g) ELSE 15 * Scale
                 boxX == calls[1].ret[1]
             IN \A k \in 1..Len(vis) :
                  /\ BoundsOf(vis[k]).width = Measured(vis[k])[1]
                  /\ 2 * BoundsOf(vis[k]).x0 = 2 * boxX + (W - Measured(vis[k])[1])

\* A group laid out with two shown elements of different widths, both
\* narrower than the floor of 15.
C2_Witness ==
    /\ op.name = "update"
    /\ \E g \in NamedGroups :
         LET vis == ShownOf(g)
         IN /\ Len(vis) >= 2
            /\ ShownWidth(g) < 15 * Scale
            /\ ShownWidth(g) > 0
            /\ \E k \in 1..Len(vis) : Measured(vis[k])[1] < ShownWidth(g)

\* C3: after update, every shown ungrouped element has the size of its
\* measured text raised to the floor (15, 10), and stands where the
\* alignment function puts a box of that size under the element's own style.
C3_UngroupedFloor ==
    op.name = "update" =>
      \A i \in UngroupedMembers :
        IsShown(i) =>
          LET m == Measured(i)
              w == IF m[1] > 15 * Scale THEN m[1] ELSE 15 * Scale
              h == IF m[2] > 10 * Scale THEN m[2] ELSE 10 * Scale
              st == texts[i]._style
              at == text_align(<<w, h>>, st.text_align, st.text_padding, st.text_outside)
          IN /\ BoundsOf(i).width = w /\ BoundsOf(i).height = h
             /\ BoundsOf(i).width >= 15 * Scale /\ BoundsOf(i).height >= 10 * Scale
             /\ BoundsOf(i).x0 = at[1] /\ BoundsOf(i).y0 = at[2]

\* Two shown ungrouped elements laid out, one measured wider than 15 and
\* lower than 10, one measured below the floor in both directions.
C3_Witness ==
    /\ op.name = "update"
    /\ \E i, j \in UngroupedMembers :
         /\ IsShown(i) /\ IsShown(j)
         /\ Measured(i)[1] > 15 * Scale /\ Measured(i)[2] < 10 * Scale
         /\ Measured(j)[1] < 15 * Scale /\ Measured(j)[2] < 10 * Scale

\* C4: after update, the bounds of the shown elements of a named group are
\* those of the group without its hidden members: the box is as wide as the
\* widest shown element and as high as the shown elements together, it is
\* anchored with the first shown element's style, and each shown element
\* follows the shown ones before it, with no room left for a hidden one.
C4_HiddenExcluded ==
    op.name = "update" =>
      \A g \in NamedGroups :
        LET vis == ShownOf(g)
        IN Len(vis) > 0 =>
             LET maxw == ShownWidth(g)
                 W == IF maxw > 15 * Scale THEN maxw ELSE 15 * Scale
                 st == texts[vis[1]]._style
                 at == text_align(<<maxw, ShownHeight(g)>>, st.text_align,
                                  st.text_padding, st.text_outside)
             IN \A k \in 1..Len(vis) :
                  BoundsOf(vis[k]) =
                    [x0 |-> at[1] + (W - Measured(vis[k])[1]) \div 2,
                     y0 |-> at[2] + HeightsBefore(vis, k) + (k - 1) * 3 * Scale,
                     width |-> Measured(vis[k])[1],
                     height |-> Measured(vis[k])[2]]

\* A group laid out whose hidden member, added before a shown one, is wider
\* than every shown member and has a height.
C4_Witness ==
    /\ op.name = "update"
    /\ \E g \in NamedGroups :
         LET list == text_groups[g].list
         IN \E p, q \in 1..Len(list) :
              /\ p < q
              /\ ~IsShown(list[p]) /\ IsShown(list[q])
              /\ Measured(list[p])[1] > ShownWidth(g)
              /\ Measured(list[p])[2] > 0

C6_AddTextGroupsEveryElement ==
    /\ op.name = "add_text" => ~op.raised
    /\ \E g \in 1..Len(text_groups) : text_groups[g].key = None
    /\ \A g, h \in 1..Len(text_groups) :
         text_groups[g].key = text_groups[h].key => g = h
    /\ \A i \in 1..Len(texts) :
         Cardinality({gk \in {<<g, k>> : g \in 1..Len(text_groups), k \in 1..Len(texts)} :
                        /\ gk[2] <= Len(text_groups[gk[1]].list)
                        /\ text_groups[gk[1]].list[gk[2]] = i}) = 1
    /\ \A g \in 1..Len(text_groups) :
         \A k \in 1..(Len(text_groups[g].list) - 1) :
           text_groups[g].list[k] < text_groups[g].list[k + 1]

C8_DrawGating ==
    op.name = "draw" =>
      LET P == op.painted
          of(i, call) == {n \in 1..Len(P) : P[n].elem = i /\ P[n].call = call}
          outlined == op.context.hovered \/ op.context.focused \/ op.context.draw_all
      IN /\ \A n \in 1..Len(P) : P[n].elem \in 1..Len(texts)
         /\ \A i \in 1..Len(texts) :
              /\ of(i, "text_multiline") # {} <=> (IsShown(i) /\ op.subject)
              /\ \A n \in of(i, "text_multiline") :
                   /\ P[n].x = BoundsOf(i).x0 /\ P[n].y = BoundsOf(i).y0
                   /\ P[n].text = texts[i]._text
              /\ Cardinality(of(i, "text_multiline")) <= 1
              /\ of(i, "rectangle") # {} <=> (IsShown(i) /\ outlined)
              /\ Cardinality(of(i, "rectangle")) <= 1
              /\ \A n \in of(i, "rectangle") :
                   /\ P[n].x = BoundsOf(i).x0 /\ P[n].y = BoundsOf(i).y0
                   /\ P[n].width = BoundsOf(i).width
                   /\ P[n].height = BoundsOf(i).height
                   /\ n > 1 /\ n < Len(P)
                   /\ P[n - 1].call = "set_line_width" /\ 2 * P[n - 1].width = Scale
                   /\ P[n + 1].call = "stroke"
              /\ ~IsShown(i) => \A n \in 1..Len(P) : P[n].elem # i

\* draw, for an item without subject in a focused context, has outlined a
\* shown element without painting its text, and passed over a hidden one.
C8_Witness ==
    /\ op.name = "draw"
    /\ ~op.subject /\ op.context.focused
    /\ \E i, j \in 1..Len(texts) : IsShown(i) /\ ~IsShown(j)
    /\ \E n \in 1..Len(op.painted) : op.painted[n].call = "rectangle"
    /\ \A n \in 1..Len(op.painted) : op.painted[n].call # "text_multiline"

\* C9, as claimed: the size a group is anchored with is the box size raised
\* to the floor, (max(groupWidth, 15), max(groupHeight, 10)), the width the
\* stacked elements are centred in.
C9_AnchorSizeIsClamped ==
    op.name = "update" =>
      \A g \in NamedGroups :
        Len(ShownOf(g)) > 0 =>
          LET calls == CallsFor(text_groups[g].key)
              w == IF ShownWidth(g) > 15 * Scale THEN ShownWidth(g) ELSE 15 * Scale
              h == IF ShownHeight(g) > 10 * Scale THEN ShownHeight(g) ELSE 10 * Scale
          IN /\ Len(calls) = 1
             /\ calls[1].extents = <<w, h>>

\* C10: the alignment, padding and outside flag a group is anchored with are
\* those of the first, in insertion order, of its shown elements; a group
\* without shown element is not anchored.
C10_AnchorStyleOfFirstShown ==
    op.name = "update" =>
      \A g \in NamedGroups :
        LET vis == ShownOf(g)
            calls == CallsFor(text_groups[g].key)
        IN IF Len(vis) = 0 THEN calls = <<>>
           ELSE /\ Len(calls) = 1
                /\ calls[1].elem = vis[1]
                /\ calls[1].align = texts[vis[1]]._style.text_align
                /\ calls[1].padding = texts[vis[1]]._style.text_padding
                /\ calls[1].outside = texts[vis[1]]._style.text_outside

\* A group laid out whose first member is hidden and differs in alignment
\* and padding from the first shown member.
C10_Witness ==
    /\ op.name = "update"
    /\ \E g \in NamedGroups :
         LET list == text_groups[g].list
             vis == ShownOf(g)
         IN /\ Len(list) >= 2 /\ Len(vis) >= 1
            /\ ~IsShown(list[1])
            /\ texts[list[1]]._style.text_align # texts[vis[1]]._style.text_align
            /\ texts[list[1]]._style.text_padding # texts[vis[1]]._style.text_padding

====
